---------------------------- MODULE Spec2Model ----------------------------
(***************************************************************************)
(* A model of src/main.py: the area of a latitude/longitude rectangle, the *)
(* per-capita and per-area emission rates, the densest-region scan and the *)
(* terrain-dependent projection of a RegionCondition.                      *)
(*                                                                         *)
(* Numbers.  Python's int is unbounded and its float is a binary rational; *)
(* TLC's integers are 32 bits wide.  Every number that may leave that      *)
(* range is carried exactly as a natural number in limbs of four decimal   *)
(* digits (least significant limb first, <<>> is 0), and every Python      *)
(* float as an exact signed fraction [neg, num, den] of two such naturals. *)
(* The model therefore computes what the source computes in exact          *)
(* arithmetic; the rounding error of IEEE doubles is not modelled.         *)
(*                                                                         *)
(* Angles.  Latitudes are drawn from the angles whose sine is a multiple   *)
(* of 1/2, longitudes are whole degrees.  math.radians(x) = x * pi / 180,  *)
(* so area = (pi / 360) * R^2 * |2 sin(hi) - 2 sin(lo)| * span, and the    *)
(* model carries the exact coefficient of pi / 360 km^2.                   *)
(***************************************************************************)
EXTENDS Integers, Sequences, FiniteSets, TLC

VARIABLES rc0, rc, total, steps, input, call

vars == <<rc0, rc, total, steps, input, call>>

---------------------------------------------------------------------------
(* Exact naturals in limbs of four decimal digits.                         *)

Lo(x) == x % 10000

Hi(x) == x \div 10000

Abs(x) == IF x < 0 THEN -x ELSE x

RECURSIVE FromNat(_)
FromNat(n) == IF n = 0 THEN <<>> ELSE <<Lo(n)>> \o FromNat(Hi(n))

RECURSIVE ToNat(_)
ToNat(b) == IF b = <<>> THEN 0 ELSE Head(b) + 10000 * ToNat(Tail(b))

RECURSIVE MulCarry(_, _, _)
MulCarry(b, m, c) ==
  IF b = <<>> THEN FromNat(c)
  ELSE LET t == Head(b) * m + c
       IN  <<Lo(t)>> \o MulCarry(Tail(b), m, Hi(t))

\* b * m for a natural b in limbs and a small natural m (m <= 200000).
MulSmall(b, m) == IF m = 0 THEN <<>> ELSE MulCarry(b, m, 0)

RECURSIVE AddCarry(_, _, _)
AddCarry(a, b, c) ==
  IF a = <<>> /\ b = <<>> THEN FromNat(c)
  ELSE LET x == IF a = <<>> THEN 0 ELSE Head(a)
           y == IF b = <<>> THEN 0 ELSE Head(b)
           t == x + y + c
       IN  <<Lo(t)>> \o AddCarry(IF a = <<>> THEN a ELSE Tail(a),
                                 IF b = <<>> THEN b ELSE Tail(b), Hi(t))

AddBig(a, b) == AddCarry(a, b, 0)

RECURSIVE MulBig(_, _)
MulBig(a, b) ==
  IF a = <<>> \/ b = <<>> THEN <<>>
  ELSE LET rest == MulBig(a, Tail(b))
       IN  AddBig(MulSmall(a, Head(b)),
                  IF rest = <<>> THEN rest ELSE <<0>> \o rest)

RECURSIVE CmpLimbs(_, _, _)
\* Compares limb i and below of two naturals of equal length.
CmpLimbs(a, b, i) ==
  IF i = 0 THEN 0
  ELSE IF a[i] > b[i] THEN 1
  ELSE IF a[i] < b[i] THEN -1
  ELSE CmpLimbs(a, b, i - 1)

\* -1, 0 or 1 as a < b, a = b or a > b.
CmpBig(a, b) ==
  IF Len(a) > Len(b) THEN 1
  ELSE IF Len(a) < Len(b) THEN -1
  ELSE CmpLimbs(a, b, Len(a))

RECURSIVE DivSmall(_, _)
\* Quotient and remainder of a natural b in limbs by a small natural d > 0.
DivSmall(b, d) ==
  IF b = <<>> THEN [q |-> <<>>, r |-> 0]
  ELSE LET hi == DivSmall(Tail(b), d)
           t  == hi.r * 10000 + Head(b)
       IN  [q |-> IF t \div d = 0 /\ hi.q = <<>> THEN <<>>
                  ELSE <<t \div d>> \o hi.q,
            r |-> t % d]

RECURSIVE PowBig(_, _)
\* m ^ e for small naturals m and e.
PowBig(m, e) == IF e = 0 THEN <<1>> ELSE MulSmall(PowBig(m, e - 1), m)

RECURSIVE DivPow(_, _, _)
\* Quotient and remainder of b by d ^ m.
DivPow(b, d, m) ==
  IF m = 0 THEN [q |-> b, r |-> <<>>]
  ELSE LET s    == DivSmall(b, d)
           rest == DivPow(s.q, d, m - 1)
       IN  [q |-> rest.q, r |-> AddBig(MulSmall(rest.r, d), FromNat(s.r))]

---------------------------------------------------------------------------
(* Python floats as exact signed fractions.                                *)

Frac(n, num, den) == [neg |-> n /\ num # <<>>, num |-> num, den |-> den]

FloatOf(i) == Frac(i < 0, FromNat(Abs(i)), <<1>>)

IsZero(x) == x.num = <<>>

\* -1, 0 or 1 as x < y, x = y or x > y.
CmpFrac(x, y) ==
  IF x.neg /\ ~y.neg THEN -1
  ELSE IF ~x.neg /\ y.neg THEN 1
  ELSE LET c == CmpBig(MulBig(x.num, y.den), MulBig(y.num, x.den))
       IN  IF x.neg THEN -c ELSE c

MulFrac(x, y) ==
  Frac(x.neg # y.neg, MulBig(x.num, y.num), MulBig(x.den, y.den))

\* x / y for y # 0.
DivFrac(x, y) ==
  Frac(x.neg # y.neg, MulBig(x.num, y.den), MulBig(x.den, y.num))

---------------------------------------------------------------------------
(* The records of the source and its functions.                            *)

GlobeRect(lo, hi, west, east) ==
  [lo_lat |-> lo, hi_lat |-> hi, west_long |-> west, east_long |-> east]

Region(rect, name, terrain) ==
  [rect |-> rect, name |-> name, terrain |-> terrain]

RegionCondition(region, year, pop, ghg_rate) ==
  [region |-> region, year |-> year, pop |-> pop, ghg_rate |-> ghg_rate]

EARTH_RADIUS_KM == 6371

\* The outcome of a call: a returned value, or a ValueError with its message.
Return(v) == [raised |-> "", value |-> v]

Raise(msg) == [raised |-> msg, value |-> <<>>]

\* 2 * math.sin(math.radians(lat)) at the latitudes the model draws.
Sin2(lat) ==
  CASE lat = -90 -> -2
    [] lat = -30 -> -1
    [] lat = 0   -> 0
    [] lat = 30  -> 1
    [] lat = 90  -> 2
    [] lat = 150 -> 1

\* C's remainder, which takes the sign of the dividend.
TruncRem(a, b) == IF a < 0 THEN -((-a) % b) ELSE a % b

\* Python's a % b for b > 0: the result takes the sign of the divisor.
PyMod(a, b) == a % b

LongitudeSpan(gr) == PyMod(gr.east_long - gr.west_long, 360)

SineDifference(gr) == Sin2(gr.hi_lat) - Sin2(gr.lo_lat)

\* The product without the absolute value.
area_signed(gr) ==
  LET p == SineDifference(gr) * LongitudeSpan(gr)
  IN  Frac(p < 0,
           MulSmall(MulSmall(FromNat(Abs(p)), EARTH_RADIUS_KM), EARTH_RADIUS_KM),
           <<1>>)

\* An inverted latitude band taken as empty: max(0, sin(y2) - sin(y1)).
area_clipped(gr) ==
  LET diff == SineDifference(gr)
      p    == (IF diff < 0 THEN 0 ELSE diff) * LongitudeSpan(gr)
  IN  Frac(p < 0,
           MulSmall(MulSmall(FromNat(Abs(p)), EARTH_RADIUS_KM), EARTH_RADIUS_KM),
           <<1>>)

\* In units of pi / 360 km^2.
area(gr) ==
  LET p == Abs(SineDifference(gr)) * LongitudeSpan(gr)
  IN  Frac(p < 0,
           MulSmall(MulSmall(FromNat(Abs(p)), EARTH_RADIUS_KM), EARTH_RADIUS_KM),
           <<1>>)

\* The check of the population left out: Python's own error on dividing by 0.
emissions_per_capita_unchecked(c) ==
  IF c.pop = 0
  THEN Raise("float division by zero")
  ELSE Return(DivFrac(c.ghg_rate, FloatOf(c.pop)))

emissions_per_capita(c) ==
  IF c.pop = 0
  THEN Raise("Population is zero - emissions per capita undefined")
  ELSE Return(DivFrac(c.ghg_rate, FloatOf(c.pop)))

\* The zero test made on the longitude span alone.
emissions_per_square_km_span(c) ==
  IF LongitudeSpan(c.region.rect) = 0
  THEN Raise("Area is zero - emissions per square km undefined")
  ELSE LET a == area(c.region.rect)
       IN  IF IsZero(a)
           THEN Raise("float division by zero")
           ELSE Return(DivFrac(c.ghg_rate, a))

emissions_per_square_km(c) ==
  LET a == area(c.region.rect)
  IN  IF IsZero(a)
      THEN Raise("Area is zero - emissions per square km undefined")
      ELSE Return(DivFrac(c.ghg_rate, a))

\* The comparison with >= in place of >.
DenserOrEqual(density, best_density) == CmpFrac(density, best_density) >= 0

\* density > best_density
Denser(density, best_density) == CmpFrac(density, best_density) > 0

RECURSIVE DensestScan(_, _, _, _)
\* The loop over rcs from index i on; best_name is <<>> for None, else <<name>>.
\* A density is in units of 360 / pi people per km^2; every density of a
\* population >= 0 is above the initial best_density of -1.0 in any unit.
DensestScan(rcs, i, best_name, best_density) ==
  IF i > Len(rcs) THEN [best_name |-> best_name, best_density |-> best_density]
  ELSE LET a == area(rcs[i].region.rect)
       IN  IF IsZero(a) THEN DensestScan(rcs, i + 1, best_name, best_density)
           ELSE LET density == DivFrac(FloatOf(rcs[i].pop), a)
                IN  IF Denser(density, best_density)
                    THEN DensestScan(rcs, i + 1, <<rcs[i].region.name>>, density)
                    ELSE DensestScan(rcs, i + 1, best_name, best_density)

\* The test for the empty list left out.
densest_unguarded(rcs) ==
  LET best == DensestScan(rcs, 1, <<>>, FloatOf(-1))
  IN  IF best.best_name = <<>>
      THEN Raise("All regions had zero area.")
      ELSE Return(best.best_name[1])

densest(rcs) ==
  IF rcs = <<>>
  THEN Raise("Empty list - no regions to compare.")
  ELSE LET best == DensestScan(rcs, 1, <<>>, FloatOf(-1))
       IN  IF best.best_name = <<>>
           THEN Raise("All regions had zero area.")
           ELSE Return(best.best_name[1])

\* The denominator of the annual rates: they are multiples of 0.00001.
RateScale == 100000

\* The annual rate, in units of 1 / RateScale.
TERRAIN_GROWTH(terrain) ==
  CASE terrain = "ocean"     -> 10
    [] terrain = "mountains" -> 50
    [] terrain = "forest"    -> -1
    [] terrain = "other"     -> 3

\* (1.0 + r) ** years, as the power (num / den) ^ exp of a fraction of small
\* naturals with exp >= 0, kept unexpanded.
growth_factor(terrain, years) ==
  LET q == RateScale + TERRAIN_GROWTH(terrain)
  IN  IF years >= 0
      THEN [num |-> q, den |-> RateScale, exp |-> years]
      ELSE [num |-> RateScale, den |-> q, exp |-> -years]

\* The value of a power as a fraction.
PowerValue(f) == Frac(FALSE, PowBig(f.num, f.exp), PowBig(f.den, f.exp))

\* int(pop * factor): the fraction cut off.
PyTrunc(pop, f) ==
  LET dv == DivPow(MulBig(FromNat(Abs(pop)), PowBig(f.num, f.exp)), f.den, f.exp)
  IN  IF pop < 0 THEN -ToNat(dv.q) ELSE ToNat(dv.q)

\* int(round(pop * factor)): Python rounds to the nearest integer, a tie to
\* the even one.
PyRound(pop, f) ==
  LET dv == DivPow(MulBig(FromNat(Abs(pop)), PowBig(f.num, f.exp)), f.den, f.exp)
      q  == ToNat(dv.q)
      c  == CmpBig(MulSmall(dv.r, 2), PowBig(f.den, f.exp))
      m  == IF c > 0 THEN q + 1
            ELSE IF c < 0 THEN q
            ELSE IF q % 2 = 0 THEN q ELSE q + 1
  IN  IF pop < 0 THEN -m ELSE m

Max(a, b) == IF a >= b THEN a ELSE b

\* The year advanced by one, whatever n.
project_condition_one_year(c, n) ==
  IF n = 0 THEN c
  ELSE LET factor == growth_factor(c.region.terrain, n)
       IN  RegionCondition(c.region, c.year + 1,
                           Max(0, PyRound(c.pop, factor)),
                           MulFrac(c.ghg_rate, PowerValue(factor)))

\* The year and the population passed to the constructor in each other's
\* place.
project_condition_swapped(c, n) ==
  IF n = 0 THEN c
  ELSE LET factor == growth_factor(c.region.terrain, n)
       IN  RegionCondition(c.region, Max(0, PyRound(c.pop, factor)),
                           c.year + n,
                           MulFrac(c.ghg_rate, PowerValue(factor)))

project_condition(c, n) ==
  IF n = 0 THEN c
  ELSE LET factor   == growth_factor(c.region.terrain, n)
           new_pop  == Max(0, PyRound(c.pop, factor))
           new_ghg  == MulFrac(c.ghg_rate, PowerValue(factor))
       IN  RegionCondition(c.region, c.year + n, new_pop, new_ghg)

---------------------------------------------------------------------------
(* The inputs.                                                             *)

\* At most this many conditions in a list handed to densest.
MaxLen == 3

\* At most this many projections in a chain.
MaxSteps == 2

\* A projection is by -MaxYears .. MaxYears years.
MaxYears == 2

Latitudes == {-90, -30, 0, 30, 90, 150}

Longitudes == {-170, -10, 0, 50, 170, 190}

GlobeRects ==
  {GlobeRect(lo, hi, w, e) : lo \in Latitudes, hi \in Latitudes,
                             w \in Longitudes, e \in Longitudes}

\* Regions for densest: A, C of equal area (C with inverted latitudes and
\* across the antimeridian), B of twice that area, Z and Y of area zero.
DensestRegions ==
  { Region(GlobeRect(0, 30, 0, 50), "A", "other"),
    Region(GlobeRect(0, 90, 0, 50), "B", "ocean"),
    Region(GlobeRect(30, 0, 170, -140), "C", "forest"),
    Region(GlobeRect(0, 30, 50, 50), "Z", "other"),
    Region(GlobeRect(30, 150, 0, 50), "Y", "mountains") }

DensestConditions ==
  {RegionCondition(r, 2020, p, FloatOf(1)) : r \in DensestRegions, p \in {0, 10, 20}}

RECURSIVE ListsUpTo(_, _)
\* The sequences over S of length at most n.
ListsUpTo(S, n) ==
  IF n = 0 THEN {<<>>}
  ELSE LET shorter == ListsUpTo(S, n - 1)
       IN  shorter \cup {Append(l, x) : l \in shorter, x \in S}

\* One region per terrain; Ridge and Woods have area zero (a degenerate
\* latitude band, longitudes equal modulo 360).
ChainRegions ==
  { Region(GlobeRect(-30, 30, 170, -170), "Pacific", "ocean"),
    Region(GlobeRect(30, 30, 0, 10), "Ridge", "mountains"),
    Region(GlobeRect(0, 90, 50, 410), "Woods", "forest"),
    Region(GlobeRect(0, 30, -121, -120), "Town", "other") }

InitialConditions ==
  {RegionCondition(r, y, p, FloatOf(g)) :
     r \in ChainRegions, y \in {1, 2020}, p \in {0, 1500, 3000, 50000},
     g \in {-3, 0, 5}}

NoCall == [op |-> "none"]

---------------------------------------------------------------------------
(* The chain of snapshots of one region: rc0 is the initial snapshot, rc   *)
(* the latest one, total the years projected so far; call is the last call *)
(* made, with its arguments and its outcome.  input is the argument of a   *)
(* call of area or densest yet to be made, and unused in a chain.          *)

Init ==
  /\ rc0 \in InitialConditions
  /\ rc = rc0
  /\ total = 0
  /\ steps = 0
  /\ input = <<>>
  /\ call = NoCall

\* rc = project_condition(rc, n)
Project(n) ==
  /\ steps < MaxSteps
  /\ rc' = project_condition(rc, n)
  /\ total' = total + n
  /\ steps' = steps + 1
  /\ call' = [op |-> "project_condition", rc |-> rc, n |-> n, out |-> Return(rc')]
  /\ UNCHANGED <<rc0, input>>

CallEmissionsPerCapita ==
  /\ call' = [op |-> "emissions_per_capita", rc |-> rc,
              out |-> emissions_per_capita(rc)]
  /\ UNCHANGED <<rc0, rc, total, steps, input>>

CallEmissionsPerSquareKm ==
  /\ call' = [op |-> "emissions_per_square_km", rc |-> rc,
              out |-> emissions_per_square_km(rc)]
  /\ UNCHANGED <<rc0, rc, total, steps, input>>

Next ==
  \/ \E n \in -MaxYears .. MaxYears : Project(n)
  \/ CallEmissionsPerCapita
  \/ CallEmissionsPerSquareKm

Spec == Init /\ [][Next]_vars

---------------------------------------------------------------------------
(* One call of area, or of densest, on an input of its own.                *)

Idle ==
  /\ rc0 = RegionCondition(Region(GlobeRect(0, 30, 0, 50), "A", "other"),
                           2020, 0, FloatOf(0))
  /\ rc = rc0
  /\ total = 0
  /\ steps = 0
  /\ call = NoCall

InitArea == Idle /\ input \in GlobeRects

\* d is the local of area before its conversion to radians.
CallArea ==
  /\ call = NoCall
  /\ call' = [op |-> "area", gr |-> input, d |-> LongitudeSpan(input),
              out |-> Return(area(input))]
  /\ UNCHANGED <<rc0, rc, total, steps, input>>

SpecArea == InitArea /\ [][CallArea]_vars

InitDensest == Idle /\ input \in ListsUpTo(DensestConditions, MaxLen)

CallDensest ==
  /\ call = NoCall
  /\ call' = [op |-> "densest", rcs |-> input, out |-> densest(input)]
  /\ UNCHANGED <<rc0, rc, total, steps, input>>

SpecDensest == InitDensest /\ [][CallDensest]_vars

---------------------------------------------------------------------------
(* Geometry.                                                               *)

AreaCalled == call.op = "area"

\* R^2 * |2 sin(hi) - 2 sin(lo)| * span, for a span >= 0.
AreaOfSpan(gr, span) ==
  Frac(FALSE,
       MulSmall(MulSmall(FromNat(Abs(Sin2(gr.hi_lat) - Sin2(gr.lo_lat)) * span),
                         6371), 6371),
       <<1>>)

\* C3: the longitude span area uses is (east_long - west_long) reduced into
\* [0, 360) by a mathematical modulo, also when the difference is negative:
\* 0 for west = east, 20 for west 170 / east -170, 340 for west -170 / east
\* 170; the area returned is that of this span.
C3_SpanIsMathematicalModulo ==
  AreaCalled =>
    LET w == call.gr.west_long
        e == call.gr.east_long
    IN  /\ call.d \in 0 .. 359
        /\ \E k \in -2 .. 2 : e - w = call.d + 360 * k
        /\ (w = e => call.d = 0)
        /\ (w = 170 /\ e = -170 => call.d = 20)
        /\ (w = -170 /\ e = 170 => call.d = 340)
        /\ call.out.raised = ""
        /\ CmpFrac(call.out.value, AreaOfSpan(call.gr, call.d)) = 0

\* area was called across the antimeridian, east minus west negative, on a
\* band of non-zero area.
C3_Witness ==
  /\ AreaCalled
  /\ call.gr = GlobeRect(-30, 30, 170, -170)
  /\ call.d = 20
  /\ ~IsZero(call.out.value)

\* C4: area never raises and returns a value >= 0, which is exactly 0 when
\* west_long and east_long coincide modulo 360, whatever the latitudes, or
\* when sin(hi_lat) - sin(lo_lat) is 0.
C4_AreaNonNegativeAndZeroWhenDegenerate ==
  AreaCalled =>
    LET gr == call.gr
    IN  /\ call.out.raised = ""
        /\ ~call.out.value.neg
        /\ ((\E k \in -2 .. 2 : gr.east_long - gr.west_long = 360 * k)
              => IsZero(call.out.value))
        /\ (Sin2(gr.hi_lat) = Sin2(gr.lo_lat) => IsZero(call.out.value))

\* area returned 0 for distinct longitudes that coincide modulo 360, on a
\* latitude band that is not degenerate.
C4_Witness ==
  /\ AreaCalled
  /\ call.gr.west_long = -170
  /\ call.gr.east_long = 190
  /\ Sin2(call.gr.hi_lat) # Sin2(call.gr.lo_lat)
  /\ call.out.raised = ""
  /\ IsZero(call.out.value)

\* C5: area is unchanged when lo_lat and hi_lat are swapped, inverted bounds
\* (lo_lat > hi_lat) included.
C5_AreaSymmetricInLatitudes ==
  AreaCalled =>
    LET gr == call.gr
    IN  CmpFrac(call.out.value,
                area(GlobeRect(gr.hi_lat, gr.lo_lat, gr.west_long, gr.east_long))) = 0

\* area was called with inverted latitude bounds and returned a non-zero area.
C5_Witness ==
  /\ AreaCalled
  /\ call.gr.lo_lat = 90
  /\ call.gr.hi_lat = -30
  /\ ~IsZero(call.out.value)

---------------------------------------------------------------------------
(* Selector.                                                               *)

DensestCalled == call.op = "densest"

HasArea(c) == ~IsZero(area(c.region.rect))

\* -1, 0 or 1 as the density pop / area of c is below, equal to or above
\* that of b, for two conditions of positive area and populations >= 0.
CompareDensity(c, b) ==
  CmpBig(MulBig(FromNat(c.pop), area(b.region.rect).num),
         MulBig(FromNat(b.pop), area(c.region.rect).num))

\* Condition i of rcs has area, no condition with area is denser, and every
\* earlier condition with area is less dense.
FirstOfMaximumDensity(rcs, i) ==
  /\ HasArea(rcs[i])
  /\ \A j \in 1 .. Len(rcs) :
       HasArea(rcs[j]) =>
         /\ CompareDensity(rcs[j], rcs[i]) <= 0
         /\ (j < i => CompareDensity(rcs[j], rcs[i]) < 0)

\* C1: on a non-empty list of conditions with populations >= 0, at least one
\* of non-zero area, densest returns the name of the condition of maximum
\* density among those of non-zero area, and of the first such in the list
\* when several reach the maximum.
C1_DensestReturnsFirstOfMaximumDensity ==
  (/\ DensestCalled
   /\ \A i \in 1 .. Len(call.rcs) : call.rcs[i].pop >= 0
   /\ \E i \in 1 .. Len(call.rcs) : HasArea(call.rcs[i]))
    => /\ call.out.raised = ""
       /\ \E i \in 1 .. Len(call.rcs) :
            /\ FirstOfMaximumDensity(call.rcs, i)
            /\ call.out.value = call.rcs[i].region.name

\* densest skipped a condition of area zero and then met two conditions of
\* equal, maximum density under different names; it returned the earlier.
C1_Witness ==
  /\ DensestCalled
  /\ Len(call.rcs) = 3
  /\ ~HasArea(call.rcs[1])
  /\ call.rcs[1].pop > 0
  /\ HasArea(call.rcs[2])
  /\ HasArea(call.rcs[3])
  /\ call.rcs[2].pop > 0
  /\ call.rcs[2].pop # call.rcs[3].pop
  /\ CompareDensity(call.rcs[2], call.rcs[3]) = 0
  /\ call.rcs[2].region.name # call.rcs[3].region.name
  /\ call.out.raised = ""
  /\ call.out.value = call.rcs[2].region.name

\* C2: densest fails with the "empty list" error on an empty list, and with
\* the "all regions had zero area" error on a non-empty list of conditions
\* that all have area zero; it returns no name in either case.
C2_DensestFailsOnEmptyAndOnAllZeroArea ==
  DensestCalled =>
    /\ (call.rcs = <<>> =>
          call.out = Raise("Empty list - no regions to compare."))
    /\ ((call.rcs # <<>> /\ \A i \in 1 .. Len(call.rcs) : ~HasArea(call.rcs[i]))
          => call.out = Raise("All regions had zero area."))

\* densest was called on conditions that all have area zero, by equal
\* longitudes and by a degenerate latitude band, and raised.
C2_Witness ==
  /\ DensestCalled
  /\ Len(call.rcs) = 2
  /\ call.rcs[1].region.name = "Z"
  /\ call.rcs[2].region.name = "Y"
  /\ call.rcs[1].pop > 0
  /\ call.out.raised = "All regions had zero area."

---------------------------------------------------------------------------
(* Metrics.                                                                *)

\* C6: emissions_per_capita fails with the "population is zero" error when
\* pop = 0 and returns ghg_rate / pop when pop > 0, for a ghg_rate of either
\* sign: the population is all it checks.
C6_EmissionsPerCapita ==
  call.op = "emissions_per_capita" =>
    /\ (call.rc.pop = 0 =>
          call.out = Raise("Population is zero - emissions per capita undefined"))
    /\ (call.rc.pop > 0 =>
          /\ call.out.raised = ""
          /\ CmpFrac(MulFrac(call.out.value, FloatOf(call.rc.pop)),
                     call.rc.ghg_rate) = 0)

\* emissions_per_capita returned a negative rate for a projected snapshot
\* with people and a negative ghg_rate.
C6_Witness ==
  /\ call.op = "emissions_per_capita"
  /\ steps > 0
  /\ call.rc.pop > 0
  /\ call.rc.ghg_rate.neg
  /\ call.out.raised = ""
  /\ call.out.value.neg

\* C7: emissions_per_square_km fails with the "area is zero" error when the
\* area of the region's rect is 0 (longitudes equal modulo 360, or a
\* degenerate latitude band) and returns ghg_rate / area otherwise, whatever
\* the population.
C7_EmissionsPerSquareKm ==
  call.op = "emissions_per_square_km" =>
    LET gr == call.rc.region.rect
        degenerate ==
          \/ \E k \in -2 .. 2 : gr.east_long - gr.west_long = 360 * k
          \/ Sin2(gr.hi_lat) = Sin2(gr.lo_lat)
    IN  /\ (degenerate =>
              call.out = Raise("Area is zero - emissions per square km undefined"))
        /\ (~degenerate =>
              /\ call.out.raised = ""
              /\ CmpFrac(MulFrac(call.out.value,
                                 AreaOfSpan(gr, (gr.east_long - gr.west_long) % 360)),
                         call.rc.ghg_rate) = 0)

\* emissions_per_square_km returned a non-zero rate for a region with area
\* and nobody in it.
C7_Witness ==
  /\ call.op = "emissions_per_square_km"
  /\ call.rc.pop = 0
  /\ call.out.raised = ""
  /\ ~IsZero(call.out.value)

---------------------------------------------------------------------------
(* Projector.                                                              *)

Projected == call.op = "project_condition"

\* The annual rates as stated, in units of 0.00001.
StatedRate(terrain) ==
  CASE terrain = "ocean"     -> 10
    [] terrain = "mountains" -> 50
    [] terrain = "forest"    -> -1
    [] terrain = "other"     -> 3

\* (1 + rate) ^ n = a ^ m / b ^ m for naturals a, b and m.
StatedFactor(terrain, n) ==
  LET q == 100000 + StatedRate(terrain)
  IN  [a |-> IF n >= 0 THEN q ELSE 100000,
       b |-> IF n >= 0 THEN 100000 ELSE q,
       m |-> IF n >= 0 THEN n ELSE -n]

\* r = round(pop * a^m / b^m) for pop >= 0: r is a natural within 1/2 of the
\* product, and even when exactly 1/2 away.
IsRounded(r, pop, f) ==
  /\ r >= 0
  /\ LET scale == PowBig(f.b, f.m)
         twice == MulSmall(MulBig(FromNat(pop), PowBig(f.a, f.m)), 2)
         below == MulSmall(MulBig(FromNat(r), scale), 2)
         up    == CmpBig(AddBig(below, scale), twice)
         down  == CmpBig(AddBig(twice, scale), below)
     IN  /\ up >= 0
         /\ down >= 0
         /\ (up = 0 \/ down = 0 => r % 2 = 0)

\* y = x * a^m / b^m
IsScaled(y, x, f) ==
  /\ y.neg = x.neg
  /\ CmpBig(MulBig(MulBig(y.num, x.den), PowBig(f.b, f.m)),
            MulBig(MulBig(x.num, y.den), PowBig(f.a, f.m))) = 0

\* C8: for a snapshot with pop >= 0 and an integer n, the projection has
\* pop = max(0, round(pop * (1 + rate)^n)) and ghg_rate = ghg_rate *
\* (1 + rate)^n, the rate being that of the terrain (ocean 0.0001, mountains
\* 0.0005, forest -0.00001, other 0.00003); for n = 0 it equals the
\* snapshot in all fields.
C8_ProjectionScalesPopulationAndEmissions ==
  (Projected /\ call.rc.pop >= 0) =>
    LET new == call.out.value
        f   == StatedFactor(call.rc.region.terrain, call.n)
    IN  /\ call.out.raised = ""
        /\ (call.n = 0 => new = call.rc)
        /\ IsRounded(new.pop, call.rc.pop, f)
        /\ IsScaled(new.ghg_rate, call.rc.ghg_rate, f)

\* A projection by one year rounded 1500 * 1.0005 = 1500.75 up to 1501 and
\* scaled a negative ghg_rate.
C8_Witness ==
  /\ Projected
  /\ call.rc.region.terrain = "mountains"
  /\ call.rc.pop = 1500
  /\ call.n = 1
  /\ call.out.value.pop = 1501
  /\ call.rc.ghg_rate.neg
  /\ call.out.value.ghg_rate # call.rc.ghg_rate

\* C9: a projection by n keeps the region and adds n to the year; after any
\* chain of projections the region is that of the initial snapshot and the
\* year is the initial year plus the sum of the steps.
C9_ProjectionKeepsRegionAndAdvancesYear ==
  /\ Projected =>
       /\ call.out.value.region = call.rc.region
       /\ call.out.value.year = call.rc.year + call.n
  /\ rc.region = rc0.region
  /\ rc.year = rc0.year + total

\* Two projections, the second backwards, left the year one above the
\* initial year and the population changed.
C9_Witness ==
  /\ Projected
  /\ steps = 2
  /\ call.n = -1
  /\ total = 1
  /\ rc.year = rc0.year + 1
  /\ rc.pop # rc0.pop

\* C10: the population of every snapshot reached from an initial snapshot
\* with pop >= 0 by projections is a non-negative integer, for every
\* terrain and every number of years per step.
C10_PopulationIsNatural ==
  /\ rc.pop \in Nat
  /\ Projected => call.out.value.pop \in Nat

\* A forest population decayed below its initial value and is still
\* positive.
C10_Witness ==
  /\ Projected
  /\ rc.region.terrain = "forest"
  /\ rc0.pop > 0
  /\ rc.pop < rc0.pop
  /\ rc.pop > 0

===========================================================================
